---- MODULE Spec2Model ----
(***************************************************************************)
(* Model of the stock ticker fetch-and-load pipeline (src/script.py) and   *)
(* of its scheduler (src/scheduler.py).                                    *)
(*                                                                         *)
(*   Spec       the script's main path: run_stock_job (cursor pagination   *)
(*              with a rate-limit delay), then load_tickers_to_snowflake   *)
(*              (pre-check, bulk insert, commit / rollback)                *)
(*   FetchSpec  run_stock_job on its own                                   *)
(*   LoadSpec   the main path from the return of run_stock_job on, for     *)
(*              every list it may return                                   *)
(*   SchedSpec  the scheduler's loop running its two jobs                  *)
(*   ConcSpec   two Loader calls on connections of their own               *)
(*                                                                         *)
(* The destination store is modelled as a DB-API connection with an        *)
(* explicit transaction: rows written by executemany are pending on the    *)
(* connection until commit() appends them to the table or rollback()       *)
(* discards them.                                                          *)
(***************************************************************************)
EXTENDS Integers, Sequences, FiniteSets, TLC

\* ---------------------------------------------------------------- bounds
MaxPages == 2        \* longest cursor chain the server hands out
MaxPageLen == 1      \* most records in one page's results array
MaxDay == 1          \* last UTC day the clock reaches (days 0..MaxDay)
MaxRuns == 2         \* job runs started in one behaviour
MaxMinute == 3       \* last minute the scheduler's wall clock reaches

\* ------------------------------------------------------------- constants
None == "None"                       \* Python's None
NoUrl == 0                           \* a missing (None) next_url
BaseUrl == 1                         \* base_url; cursor i > 1 is the URL of page i
SLEEP_SECONDS == 13                  \* time.sleep(13)
HTTP_OK == 200

\* ticker dictionaries as the API returns them; keys may be absent
TickerDicts ==
    { [ticker |-> "A", name |-> "Alpha", active |-> "true"],
      [ticker |-> "B"] }

\* dict.get(key) with default None
Get(d, k) == IF k \in DOMAIN d THEN d[k] ELSE None

\* bool(next_url): a missing cursor is falsy
Truthy(url) == url # NoUrl

RECURSIVE SeqsUpTo(_, _)
SeqsUpTo(S, n) ==
    IF n = 0 THEN { <<>> }
    ELSE LET shorter == SeqsUpTo(S, n - 1)
         IN shorter \cup { Append(s, x) : s \in { t \in shorter : Len(t) = n - 1 }, x \in S }

\* response bodies of one page: a results array, or no 'results' key at all
PageBodies ==
    { [status |-> "OK", results |-> r] : r \in SeqsUpTo(TickerDicts, MaxPageLen) }
      \cup { [status |-> "OK"] }

\* cursor chains: page 1 is served at base_url, page i > 1 at cursor i
Chains == { c \in SeqsUpTo(PageBodies, MaxPages) : Len(c) >= 1 }

CursorOf(i) == i                      \* opaque next-page cursor of page i

\* the body the server sends for page i of chain c: next_url only if a
\* further page exists
ServerJson(c, i) ==
    IF i < Len(c) THEN c[i] @@ [next_url |-> CursorOf(i + 1)] ELSE c[i]

VARIABLES
    now,          \* UTC clock, in days
    runs,         \* number of job runs started
    pc,           \* position of the script's main path
    apiKey,       \* POLYGON_API_KEY as loaded from the environment
    chain,        \* the server's cursor chain during this run
    next_url,     \* run_stock_job: next_url
    tickers,      \* run_stock_job: tickers
    events,       \* run_stock_job: requests and sleeps, in order
    responses,    \* run_stock_job: responses received, in order
    all_tickers,  \* __main__: all_tickers
    exc,          \* exception raised by the last finished call, or None
    conn,         \* connection: "none", "open", "closed"
    cursor,       \* cursor: "none", "open", "closed"
    today,        \* load_tickers_to_snowflake: today
    count,        \* load_tickers_to_snowflake: count
    table,        \* committed rows of the target table
    pending,      \* rows written in the connection's open transaction
    dbops,        \* store operations of the current run, in order
    load,         \* history of the current and the previous Loader call
    loaded,       \* per day, the full server batches of the runs committed to it
    emptyRuns,    \* days on which a run of the script ended with an empty batch
    sched,        \* scheduler.py: position of the main loop
    minute,       \* scheduler.py: wall clock, in minutes
    next_run,     \* schedule: per job, the minute of its next run
    runnable,     \* schedule.run_pending: the due jobs still to run
    log,          \* scheduler.py: the records written by logger
    active,       \* scheduler.py: runs of the stock job in progress
    lpc,          \* overlapping Loader calls: position of each call
    lbatch,       \* overlapping Loader calls: tickers of each call
    ltoday,       \* overlapping Loader calls: today of each call
    lcount,       \* overlapping Loader calls: count of each call
    lpending,     \* overlapping Loader calls: open transaction of each connection
    lseen         \* overlapping Loader calls: calls committed before each pre-check

vars == << now, runs, pc, apiKey, chain, next_url, tickers, events, responses,
           all_tickers, exc, conn, cursor, today, count, table, pending,
           dbops, load, loaded, emptyRuns, sched, minute, next_run, runnable,
           log, active, lpc, lbatch, ltoday, lcount, lpending, lseen >>

fetchVars == << apiKey, chain, next_url, tickers, events, responses >>
loaderVars == << conn, cursor, today, count, dbops >>
storeVars == << table, pending, load, loaded >>
schedVars == << sched, minute, next_run, runnable, log, active >>
concVars == << lpc, lbatch, ltoday, lcount, lpending, lseen >>
outerVars == << schedVars, concVars >>

\* ------------------------------------------------------- run_stock_job

\* variant: the key check never fires
KeyMissing_never(key) == FALSE

\* `if not POLYGON_API_KEY`
KeyMissing(key) == key = None \/ key = ""

\* the response to a GET of url against chain c with the given status
Response(c, url, status) ==
    [status_code |-> status,
     json |-> IF status = HTTP_OK /\ url \in 1..Len(c) THEN ServerJson(c, url)
              ELSE [status |-> "ERROR"]]

\* data.get('results', [])
ResultsOf(data) == IF "results" \in DOMAIN data THEN data.results ELSE <<>>

\* variant: a missing cursor defaults to the base URL
NextUrlOf_default(data) ==
    IF "next_url" \in DOMAIN data THEN data.next_url ELSE BaseUrl

\* data.get('next_url')
NextUrlOf(data) == IF "next_url" \in DOMAIN data THEN data.next_url ELSE NoUrl

\* variant: the page is put in front of the list
Extend_prepend(list, results) == results \o list

\* tickers.extend(results)
Extend(list, results) == list \o results

\* variant: the delay follows every successful page
ShouldSleep_always(url) == TRUE

\* `if next_url:` guarding time.sleep(13)
ShouldSleep(url) == Truthy(url)

\* variant: the loop runs until a request fails
LoopContinues_ignoreCursor(status, url) == status = HTTP_OK

\* variant: no `break` on a non-success status
LoopContinues_nobreak(status, url) == Truthy(url)

\* the loop goes round again: the `while next_url` test, unless `break`
LoopContinues(status, url) == status = HTTP_OK /\ Truthy(url)

\* variant: every request is built like the first one
RequestEvent_alwaysParams(url) ==
    [type |-> "request", url |-> url, how |-> "params"]

\* how the request is built: params on the base URL, else the key appended
RequestEvent(url) ==
    [type |-> "request", url |-> url,
     how |-> IF url = BaseUrl THEN "params" ELSE "apiKey_appended"]

SleepEvent == [type |-> "sleep", seconds |-> SLEEP_SECONDS]

StatusCodes == { HTTP_OK, 500 }
ApiKeys == { None, "", "key" }

\* a new process starts the script: load_dotenv, the key check, the set-up
\* of the loop (lines 18-41)
StartRun ==
    /\ pc = "idle"
    /\ runs < MaxRuns
    /\ runs' = runs + 1
    /\ \E key \in ApiKeys, c \in Chains :
          /\ apiKey' = key
          /\ chain' = c
          /\ IF KeyMissing(key)
             THEN /\ exc' = "ValueError"
                  /\ pc' = "aborted"
                  /\ next_url' = NoUrl
             ELSE /\ exc' = None
                  /\ pc' = "loop"
                  /\ next_url' = BaseUrl
    /\ tickers' = <<>>
    /\ events' = <<>>
    /\ responses' = <<>>
    /\ all_tickers' = <<>>
    /\ dbops' = <<>>
    /\ UNCHANGED << outerVars, emptyRuns,
                    now, conn, cursor, today, count, storeVars >>

\* one iteration of the while loop (lines 43-72) and, when the loop ends,
\* the return of the list (lines 74-75)
FetchPage ==
    /\ pc = "loop"
    /\ \E status \in StatusCodes :
        LET response == Response(chain, next_url, status)
            data     == response.json
            results  == ResultsOf(data)
            url2     == IF response.status_code = HTTP_OK THEN NextUrlOf(data)
                        ELSE next_url
            list2    == IF response.status_code = HTTP_OK
                        THEN Extend(tickers, results) ELSE tickers
            slept    == response.status_code = HTTP_OK /\ ShouldSleep(url2)
            again    == LoopContinues(response.status_code, url2)
        IN  /\ responses' = Append(responses, response)
            /\ events' = events \o << RequestEvent(next_url) >>
                                \o (IF slept THEN << SleepEvent >> ELSE <<>>)
            /\ tickers' = list2
            /\ next_url' = url2
            /\ IF again
               THEN /\ pc' = "loop"
                    /\ UNCHANGED all_tickers
               ELSE /\ pc' = "returned"
                    /\ all_tickers' = list2
    /\ UNCHANGED << outerVars, emptyRuns,
                    now, runs, apiKey, chain, exc, loaderVars, storeVars >>

\* ------------------------------------------------------------- __main__

\* variant: the Loader is called whatever the list holds
HasTickers_always(list) == TRUE

\* `if all_tickers:` : a non-empty list is truthy
HasTickers(list) == Len(list) > 0

\* `if all_tickers:` (lines 165-180)
MainBranch ==
    /\ pc = "returned"
    /\ IF HasTickers(all_tickers)
       THEN /\ pc' = "connect"
            /\ UNCHANGED emptyRuns
       ELSE /\ pc' = "done"
            /\ emptyRuns' = emptyRuns \cup { now }
    /\ UNCHANGED << outerVars, now, runs, fetchVars, all_tickers, exc, loaderVars,
                    storeVars >>

\* conn = get_snowflake_conn() (line 170); a failure is caught at line 177
GetConn ==
    /\ pc = "connect"
    /\ \/ /\ conn' = "open"
          /\ dbops' = Append(dbops, "connect")
          /\ pc' = "load_begin"
          /\ UNCHANGED exc
       \/ /\ exc' = "ConnectError"
          /\ pc' = "done"
          /\ UNCHANGED << conn, dbops >>
    /\ UNCHANGED << outerVars, emptyRuns,
                    now, runs, fetchVars, all_tickers, cursor, today, count, storeVars >>

\* ------------------------------------------- load_tickers_to_snowflake

\* the 13-column row built from one ticker dict (lines 122-136)
Row(ticker, ds) ==
    << Get(ticker, "ticker"), Get(ticker, "name"), Get(ticker, "market"),
       Get(ticker, "locale"), Get(ticker, "primary_exchange"),
       Get(ticker, "type"), Get(ticker, "active"), Get(ticker, "currency_name"),
       Get(ticker, "cik"), Get(ticker, "composite_figi"),
       Get(ticker, "share_class_figi"), Get(ticker, "last_updated_utc"), ds >>

DS(row) == row[13]

\* variant: the date is read from the clock again for the rows
RowsToInsert_clock(list, ds) == [i \in 1..Len(list) |-> Row(list[i], now)]

\* rows_to_insert (lines 120-137)
RowsToInsert(list, ds) == [i \in 1..Len(list) |-> Row(list[i], ds)]

\* variant: the query filters on the day before
CountRows_wrongDay(tbl, pend, ds) ==
    Len(SelectSeq(tbl \o pend, LAMBDA r : DS(r) = ds - 1))

\* SELECT COUNT(1) FROM table WHERE DS = ds, as the connection sees it
CountRows(tbl, pend, ds) ==
    Len(SelectSeq(tbl \o pend, LAMBDA r : DS(r) = ds))

\* variant: the pre-check never skips
AlreadyLoaded_never(n) == FALSE

\* variant: the skip needs more than one row
AlreadyLoaded_strict(n) == n > 1

\* `if count > 0` : skip the load
AlreadyLoaded(n) == n > 0

\* conn.commit()
Commit(tbl, pend) == [table |-> tbl \o pend, pending |-> <<>>]

\* variant: the handler leaves the transaction open
Rollback_noop(tbl, pend) == [table |-> tbl, pending |-> pend]

\* conn.rollback()
Rollback(tbl, pend) == [table |-> tbl, pending |-> <<>>]

NoLoad ==
    [outcome |-> "none", ds |-> -1, batch |-> <<>>, before |-> <<>>,
     rows |-> <<>>, written |-> 0, checked |-> -1]

\* the full batch the server holds during this run
RECURSIVE Flatten(_)
Flatten(pages) ==
    IF pages = <<>> THEN <<>> ELSE Head(pages) \o Flatten(Tail(pages))

FullBatch(c) == Flatten([i \in 1..Len(c) |-> ResultsOf(c[i])])

\* cursor = conn.cursor(); today = datetime.now(timezone.utc).date()
LoadBegin ==
    /\ pc = "load_begin"
    /\ cursor' = "open"
    /\ today' = now
    /\ dbops' = Append(dbops, "cursor")
    /\ load' = [cur |-> [NoLoad EXCEPT !.outcome = "running", !.ds = now,
                                       !.batch = all_tickers, !.before = table],
                prev |-> load.cur]
    /\ pc' = "load_check"
    /\ UNCHANGED << outerVars, emptyRuns,
                    now, runs, fetchVars, all_tickers, exc, conn, count,
                    table, pending, loaded >>

\* the pre-check (lines 111-117): the query, then skip or go on
PreCheck ==
    /\ pc = "load_check"
    /\ dbops' = Append(dbops, "select_count")
    /\ \/ LET n == CountRows(table, pending, today)
          IN  /\ count' = n
              /\ IF AlreadyLoaded(n)
                 THEN /\ pc' = "load_finally"
                      /\ load' = [load EXCEPT !.cur.outcome = "skipped",
                                              !.cur.checked = today]
                 ELSE /\ pc' = "load_insert"
                      /\ load' = [load EXCEPT !.cur.checked = today]
              /\ UNCHANGED exc
       \/ /\ exc' = "StoreError"
          /\ pc' = "load_except"
          /\ UNCHANGED << count, load >>
    /\ UNCHANGED << outerVars, emptyRuns,
                    now, runs, fetchVars, all_tickers, conn, cursor, today,
                    table, pending, loaded >>

\* cursor.executemany(insert_sql, rows_to_insert) (lines 120-148): all rows
\* are written, or the statement fails after k of them
Insert ==
    /\ pc = "load_insert"
    /\ dbops' = Append(dbops, "executemany")
    /\ LET rows == RowsToInsert(all_tickers, today)
       IN  \/ /\ pending' = pending \o rows
              /\ load' = [load EXCEPT !.cur.rows = rows, !.cur.written = Len(rows)]
              /\ pc' = "load_commit"
              /\ UNCHANGED exc
           \/ \E k \in 0..(Len(rows) - 1) :
              /\ pending' = pending \o SubSeq(rows, 1, k)
              /\ load' = [load EXCEPT !.cur.rows = rows, !.cur.written = k,
                                      !.cur.outcome = "insert_failed"]
              /\ exc' = "StoreError"
              /\ pc' = "load_except"
    /\ UNCHANGED << outerVars, emptyRuns,
                    now, runs, fetchVars, all_tickers, conn, cursor, today,
                    count, table, loaded >>

\* conn.commit() (line 149)
DoCommit ==
    /\ pc = "load_commit"
    /\ dbops' = Append(dbops, "commit")
    /\ \/ LET c == Commit(table, pending)
          IN  /\ table' = c.table
              /\ pending' = c.pending
              /\ load' = [load EXCEPT !.cur.outcome = "committed"]
              /\ loaded' = [loaded EXCEPT ![today] = Append(@, FullBatch(chain))]
              /\ pc' = "load_finally"
              /\ UNCHANGED exc
       \/ /\ exc' = "StoreError"
          /\ load' = [load EXCEPT !.cur.outcome = "commit_failed"]
          /\ pc' = "load_except"
          /\ UNCHANGED << table, pending, loaded >>
    /\ UNCHANGED << outerVars, emptyRuns,
                    now, runs, fetchVars, all_tickers, conn, cursor, today, count >>

\* except Exception: conn.rollback(); raise e (lines 152-154)
DoRollback ==
    /\ pc = "load_except"
    /\ dbops' = Append(dbops, "rollback")
    /\ LET r == Rollback(table, pending)
       IN  /\ table' = r.table
           /\ pending' = r.pending
    /\ load' = [load EXCEPT !.cur.outcome =
                   IF @ = "running" THEN "check_failed" ELSE @]
    /\ pc' = "load_finally"
    /\ UNCHANGED << outerVars, emptyRuns,
                    now, runs, fetchVars, all_tickers, exc, conn, cursor, today,
                    count, loaded >>

\* variant: the cursor is closed at the end of the try block only
CursorClose_onlyOnSuccess ==
    /\ pc = "load_finally"
    /\ cursor' = IF load.cur.outcome = "committed" THEN "closed" ELSE cursor
    /\ dbops' = IF load.cur.outcome = "committed"
                THEN Append(dbops, "cursor_close") ELSE dbops
    /\ pc' = "load_returned"
    /\ UNCHANGED << outerVars, emptyRuns,
                    now, runs, fetchVars, all_tickers, exc, conn, today, count,
                    storeVars >>

\* finally: cursor.close() (lines 155-156); control goes back to the caller
CursorClose ==
    /\ pc = "load_finally"
    /\ cursor' = "closed"
    /\ dbops' = Append(dbops, "cursor_close")
    /\ pc' = "load_returned"
    /\ UNCHANGED << outerVars, emptyRuns,
                    now, runs, fetchVars, all_tickers, exc, conn, today, count,
                    storeVars >>

\* finally: conn.close() (lines 175-176), then the except of line 177
\* an open transaction is discarded when the connection closes
ConnClose ==
    /\ pc = "load_returned"
    /\ conn' = "closed"
    /\ pending' = <<>>
    /\ dbops' = Append(dbops, "conn_close")
    /\ pc' = "done"
    /\ UNCHANGED << outerVars, emptyRuns,
                    now, runs, fetchVars, all_tickers, exc, cursor, today, count,
                    table, load, loaded >>

\* the process ends and its locals with it; the next run is a new process
Exit ==
    /\ pc \in { "done", "aborted" }
    /\ pc' = "idle"
    /\ apiKey' = None
    /\ chain' = << [status |-> "OK"] >>
    /\ next_url' = NoUrl
    /\ tickers' = <<>>
    /\ events' = <<>>
    /\ responses' = <<>>
    /\ all_tickers' = <<>>
    /\ exc' = None
    /\ conn' = "none"
    /\ cursor' = "none"
    /\ today' = 0
    /\ count' = 0
    /\ dbops' = <<>>
    /\ UNCHANGED << outerVars, emptyRuns,
                    now, runs, storeVars >>

\* the UTC date changes
Tick ==
    /\ now < MaxDay
    /\ now' = now + 1
    /\ UNCHANGED << outerVars, emptyRuns,
                    runs, pc, fetchVars, all_tickers, exc, loaderVars, storeVars >>

Jobs == { "basic_job", "safe_run_stock_job" }
Calls == { 1, 2 }

\* the scheduler is not part of this process
SchedIdle ==
    /\ sched = "off"
    /\ minute = 0
    /\ next_run = [j \in Jobs |-> 0]
    /\ runnable = <<>>
    /\ log = <<>>
    /\ active = 0

\* no overlapping Loader calls are under way
ConcIdle ==
    /\ lpc = [p \in Calls |-> "off"]
    /\ lbatch = [p \in Calls |-> <<>>]
    /\ ltoday = [p \in Calls |-> 0]
    /\ lcount = [p \in Calls |-> 0]
    /\ lpending = [p \in Calls |-> <<>>]
    /\ lseen = [p \in Calls |-> {}]

Init ==
    /\ now = 0
    /\ runs = 0
    /\ pc = "idle"
    /\ apiKey = None
    /\ chain = << [status |-> "OK"] >>
    /\ next_url = NoUrl
    /\ tickers = <<>>
    /\ events = <<>>
    /\ responses = <<>>
    /\ all_tickers = <<>>
    /\ exc = None
    /\ conn = "none"
    /\ cursor = "none"
    /\ today = 0
    /\ count = 0
    /\ table = <<>>
    /\ pending = <<>>
    /\ dbops = <<>>
    /\ load = [cur |-> NoLoad, prev |-> NoLoad]
    /\ loaded = [d \in 0..MaxDay |-> <<>>]
    /\ emptyRuns = {}
    /\ SchedIdle
    /\ ConcIdle

Next ==
    \/ StartRun
    \/ FetchPage
    \/ MainBranch
    \/ GetConn
    \/ LoadBegin
    \/ PreCheck
    \/ Insert
    \/ DoCommit
    \/ DoRollback
    \/ CursorClose
    \/ ConnClose
    \/ Exit
    \/ Tick

Spec == Init /\ [][Next]_vars

\* --------------------------------------------- run_stock_job on its own

\* a caller that only takes the returned list
ResultTaken ==
    /\ pc = "returned"
    /\ pc' = "done"
    /\ UNCHANGED << outerVars, emptyRuns, now, runs, fetchVars, all_tickers, exc,
                    loaderVars, storeVars >>

FetchNext ==
    \/ StartRun
    \/ FetchPage
    \/ ResultTaken
    \/ Exit

FetchSpec == Init /\ [][FetchNext]_vars

\* ------------------------- the script from the return of run_stock_job on

\* the lists run_stock_job may hand to __main__
Batches == SeqsUpTo(TickerDicts, MaxPageLen + 1)

\* all_tickers = run_stock_job() (line 161), for any returned list
FetchReturns ==
    /\ pc = "idle"
    /\ runs < MaxRuns
    /\ runs' = runs + 1
    /\ all_tickers' \in Batches
    /\ pc' = "returned"
    /\ UNCHANGED << outerVars, emptyRuns, now, fetchVars, exc, loaderVars, storeVars >>

LoadNext ==
    \/ FetchReturns
    \/ MainBranch
    \/ GetConn
    \/ LoadBegin
    \/ PreCheck
    \/ Insert
    \/ DoCommit
    \/ DoRollback
    \/ CursorClose
    \/ ConnClose
    \/ Exit
    \/ Tick

LoadSpec == Init /\ [][LoadNext]_vars

\* ------------------------------------------------------------ properties

Days == 0..MaxDay

\* the committed rows of one partition key
PartitionRows(d) == SelectSeq(table, LAMBDA r : DS(r) = d)

\* the result arrays of the first n responses received in this run
ReceivedPages(n) == [i \in 1..n |-> ResultsOf(responses[i].json)]

RECURSIVE SumLen(_)
SumLen(pages) == IF pages = <<>> THEN 0 ELSE Len(Head(pages)) + SumLen(Tail(pages))

NumEvents(t) == Cardinality({ i \in 1..Len(events) : events[i].type = t })

AllOk == \A i \in 1..Len(responses) : responses[i].status_code = HTTP_OK

SameCallAsPrevious ==
    /\ load.cur.outcome # "none"
    /\ load.prev.outcome \in { "committed", "skipped" }
    /\ load.cur.ds = load.prev.ds
    /\ load.cur.batch = load.prev.batch
    /\ load.cur.batch # <<>>

\* C1: every partition key holds either no rows or the rows of the full
\* ticker set of exactly one run, never a partial set nor rows of two runs.
C1_PartitionEmptyOrOneFullRun ==
    \A d \in Days :
        \/ PartitionRows(d) = <<>>
        \/ /\ Len(loaded[d]) = 1
           /\ PartitionRows(d) = [i \in 1..Len(loaded[d][1]) |-> Row(loaded[d][1][i], d)]

\* C2: a second Loader call right after one that returned normally, with the
\* same partition key and the same non-empty batch, inserts nothing; the
\* partition keeps exactly the one set of rows it had.
C2_LoaderIdempotent ==
    SameCallAsPrevious =>
        /\ table = load.cur.before
        /\ pending = <<>>
        /\ load.cur.rows = <<>>
        /\ \A i \in 1..Len(dbops) : dbops[i] \notin { "executemany", "commit" }
        /\ Len(PartitionRows(load.cur.ds)) > 0
        /\ load.prev.outcome = "committed" =>
              PartitionRows(load.cur.ds) =
                  [i \in 1..Len(load.cur.batch) |-> Row(load.cur.batch[i], load.cur.ds)]

C2_Witness ==
    /\ pc = "load_returned"
    /\ SameCallAsPrevious
    /\ load.prev.outcome = "committed"
    /\ load.cur.outcome = "skipped"

\* C3: when the bulk insert fails after some rows were written, the Loader
\* hands control back with the transaction rolled back, no row under the
\* partition key, and the error raised.
C3_FailedInsertRolledBack ==
    (pc = "load_returned" /\ load.cur.outcome = "insert_failed") =>
        /\ CountRows(table, pending, load.cur.ds) = 0
        /\ pending = <<>>
        /\ table = load.cur.before
        /\ exc = "StoreError"

C3_Witness ==
    /\ pc = "load_returned"
    /\ load.cur.outcome = "insert_failed"
    /\ load.cur.written > 0

\* C4: when every page response succeeded, the returned list is the
\* concatenation of the pages' result arrays in the order received, and its
\* length is the sum of the page lengths.
C4_ConcatenationOfPages ==
    (pc = "returned" /\ AllOk) =>
        /\ all_tickers = Flatten(ReceivedPages(Len(responses)))
        /\ Len(all_tickers) = SumLen(ReceivedPages(Len(responses)))
        /\ all_tickers = FullBatch(chain)

C4_Witness ==
    /\ pc = "returned"
    /\ AllOk
    /\ Len(responses) = 2
    /\ Len(all_tickers) = 2
    /\ Get(all_tickers[1], "ticker") # Get(all_tickers[2], "ticker")

C6_NoCursorEndsPaging ==
    \A i \in 1..Len(responses) :
        (responses[i].status_code = HTTP_OK /\ "next_url" \notin DOMAIN responses[i].json) =>
            /\ i = Len(responses)
            /\ pc # "loop"
            /\ NumEvents("request") = i

C6_Witness ==
    /\ pc = "returned"
    /\ Len(responses) = 2
    /\ responses[2].status_code = HTTP_OK
    /\ "next_url" \notin DOMAIN responses[2].json

\* C7: requests and delays alternate, starting with a request; a finished
\* run ends on a request, so k requests come with exactly k-1 delays.
C7_OneDelayBetweenRequests ==
    /\ \A i \in 1..Len(events) :
          /\ events[i].type = IF i % 2 = 1 THEN "request" ELSE "sleep"
          /\ events[i].type = "sleep" => events[i].seconds = SLEEP_SECONDS
    /\ pc = "loop" => NumEvents("sleep") = NumEvents("request")
    /\ pc \in { "returned", "connect", "done" } =>
          NumEvents("sleep") = NumEvents("request") - 1

C7_Witness ==
    /\ pc = "returned"
    /\ NumEvents("request") = 2
    /\ NumEvents("sleep") = 1

C9_SkipLeavesTableUnchanged ==
    count > 0 =>
        /\ pc \in { "load_finally", "load_returned", "done" }
        /\ table = load.cur.before
        /\ pending = <<>>
        /\ exc = None
        /\ \A i \in 1..Len(dbops) :
              dbops[i] \notin { "executemany", "commit", "rollback" }

C9_Witness ==
    /\ pc = "load_returned"
    /\ count > 0
    /\ Len(all_tickers) > 0

\* C10: after a pre-check that found no rows and a successful insert, the
\* table has gained exactly one row per record of the batch, in order, and
\* each carries the date the pre-check of that call used.
C10_OneRowPerRecordSameDate ==
    load.cur.outcome = "committed" =>
        LET old   == load.cur.before
            added == SubSeq(table, Len(old) + 1, Len(table))
        IN  /\ SubSeq(table, 1, Len(old)) = old
            /\ Len(added) = Len(load.cur.batch)
            /\ \A i \in 1..Len(added) :
                  /\ DS(added[i]) = load.cur.checked
                  /\ added[i][1] = Get(load.cur.batch[i], "ticker")
                  /\ added[i][2] = Get(load.cur.batch[i], "name")

C10_Witness ==
    /\ pc = "load_returned"
    /\ load.cur.outcome = "committed"
    /\ Len(load.cur.batch) = 2
    /\ now # load.cur.checked

\* ---------------------------------------------- properties of the script

Requests == SelectSeq(events, LAMBDA e : e.type = "request")

HasCursor(response) ==
    response.status_code = HTTP_OK /\ "next_url" \in DOMAIN response.json

NumOps(op) == Cardinality({ i \in 1..Len(dbops) : dbops[i] = op })

\* C14: once a page request has returned a non-success status, the run
\* performs no partition check and no insert.
C14_PartialFailureTerminal ==
    (\E i \in 1..Len(responses) : responses[i].status_code # HTTP_OK) =>
        (NumOps("select_count") = 0 /\ NumOps("executemany") = 0)

\* C15: the first request goes to the base URL with the parameter set; each
\* later request goes to the cursor of the successful response just before
\* it, with the API key appended; nothing is requested after a failure.
C15_RequestProtocol ==
    /\ Len(Requests) = Len(responses)
    /\ \A j \in 1..Len(Requests) :
          IF j = 1
          THEN Requests[j].url = BaseUrl /\ Requests[j].how = "params"
          ELSE /\ HasCursor(responses[j - 1])
               /\ Requests[j].url = responses[j - 1].json.next_url
               /\ Requests[j].how = "apiKey_appended"

C15_Witness ==
    /\ pc = "returned"
    /\ Len(Requests) = 2
    /\ Requests[2].how = "apiKey_appended"

\* C18: a run of the script with an empty batch touches the store not at
\* all and raises nothing; rows under a key come from a commit only, and a
\* pre-check counts rows only if an earlier call committed to that key.
C18_EmptyBatchLeavesPartitionOpen ==
    /\ (pc = "done" /\ all_tickers = <<>>) =>
          (dbops = <<>> /\ exc = None /\ conn = "none")
    /\ \A d \in Days : PartitionRows(d) # <<>> => loaded[d] # <<>>
    /\ count > 0 => loaded[today] # <<>>

C18_Witness ==
    /\ pc = "load_returned"
    /\ load.prev.outcome = "none"
    /\ load.cur.outcome = "committed"
    /\ load.cur.ds \in emptyRuns
    /\ PartitionRows(load.cur.ds) # <<>>

\* C19: the cursor a Loader call opened is closed when the call hands
\* control back, on every path; the connection a run opened is closed
\* exactly once before the run ends.
C19_ResourcesReleased ==
    /\ pc \in { "load_returned", "done" } =>
          (cursor # "open" /\ NumOps("cursor_close") = NumOps("cursor"))
    /\ pc = "done" =>
          /\ conn # "open"
          /\ NumOps("conn_close") = NumOps("connect")
          /\ NumOps("conn_close") <= 1
    /\ pc \in { "idle", "loop", "returned", "connect", "aborted" } => conn = "none"

C19_Witness ==
    /\ pc = "done"
    /\ exc = "StoreError"
    /\ cursor = "closed"
    /\ conn = "closed"
    /\ NumOps("conn_close") = 1

\* C20: a run never issues more requests than the chain has pages; with no
\* failure it issues exactly one per page and returns; the loop is left only
\* after a response without cursor or with a non-success status.
C20_FetchTerminates ==
    /\ Len(Requests) <= Len(chain)
    /\ (pc = "returned" /\ AllOk) => Len(Requests) = Len(chain)
    /\ pc = "returned" =>
          (responses # <<>> /\ ~HasCursor(responses[Len(responses)]))
    /\ (pc = "loop" /\ responses # <<>>) => HasCursor(responses[Len(responses)])

C20_Witness ==
    /\ pc = "returned"
    /\ AllOk
    /\ Len(chain) = MaxPages
    /\ Len(Requests) = MaxPages

\* ------------------------------------------------------------ scheduler.py

Last(q) == q[Len(q)]

\* schedule.every().minute: a job is next due one minute after t
EveryMinute(t) == t + 1

\* the jobs due at minute t, by next_run, then in the order of registration
DueJobs(nr, t) ==
    LET due(j) == t >= nr[j]
        first  == IF due("basic_job") /\ due("safe_run_stock_job")
                     /\ nr["safe_run_stock_job"] < nr["basic_job"]
                  THEN << "safe_run_stock_job", "basic_job" >>
                  ELSE << "basic_job", "safe_run_stock_job" >>
    IN  SelectSeq(first, due)

\* variant: the wrapper lets the exception through
Caught_nothing(e) == FALSE

\* `except Exception as e` in safe_run_stock_job
Caught(e) == e \in { "ValueError", "StoreError", "ConnectError" }

\* variant: the job is started without waiting for it
AfterJobStart_detached == "run_pending"

\* run_pending calls the job and blocks until it returns
AfterJobStart == "in_job"

SchedLive == { "loop", "run_pending", "in_job", "sleep" }

\* the scheduler process after its set-up: both jobs registered (lines
\* 32-33), "Scheduler started" logged (line 38)
SchedInit ==
    /\ now = 0
    /\ runs = 0
    /\ pc = "sched"
    /\ apiKey = None
    /\ chain = << [status |-> "OK"] >>
    /\ next_url = NoUrl
    /\ tickers = <<>>
    /\ events = <<>>
    /\ responses = <<>>
    /\ all_tickers = <<>>
    /\ exc = None
    /\ conn = "none"
    /\ cursor = "none"
    /\ today = 0
    /\ count = 0
    /\ table = <<>>
    /\ pending = <<>>
    /\ dbops = <<>>
    /\ load = [cur |-> NoLoad, prev |-> NoLoad]
    /\ loaded = [d \in 0..MaxDay |-> <<>>]
    /\ emptyRuns = {}
    /\ sched = "loop"
    /\ minute = 0
    /\ next_run = [j \in Jobs |-> EveryMinute(0)]
    /\ runnable = <<>>
    /\ log = << "started" >>
    /\ active = 0
    /\ ConcIdle

scriptVars == << now, runs, pc, fetchVars, all_tickers, exc, loaderVars, storeVars,
                emptyRuns >>

\* schedule.run_pending() (line 43): collect the due jobs
RunPending ==
    /\ sched = "loop"
    /\ runnable' = DueJobs(next_run, minute)
    /\ sched' = "run_pending"
    /\ UNCHANGED << scriptVars, concVars, minute, next_run, log, active >>

\* basic_job (lines 18-20), then the job is scheduled again
BasicJob ==
    /\ sched = "run_pending"
    /\ runnable # <<>>
    /\ Head(runnable) = "basic_job"
    /\ log' = Append(log, "heartbeat")
    /\ next_run' = [next_run EXCEPT !["basic_job"] = EveryMinute(minute)]
    /\ runnable' = Tail(runnable)
    /\ UNCHANGED << scriptVars, concVars, sched, minute, active >>

\* safe_run_stock_job up to the call of run_stock_job (lines 24-26)
SafeJobStart ==
    /\ sched = "run_pending"
    /\ runnable # <<>>
    /\ Head(runnable) = "safe_run_stock_job"
    /\ runs < MaxRuns
    /\ log' = Append(log, "starting")
    /\ runnable' = Tail(runnable)
    /\ active' = active + 1
    /\ pc' = "idle"
    /\ sched' = AfterJobStart
    /\ UNCHANGED << now, runs, fetchVars, all_tickers, exc, loaderVars, storeVars,
                    emptyRuns, concVars, minute, next_run >>

\* run_stock_job returned: the list is dropped and success is logged
\* (line 27)
SafeJobSuccess ==
    /\ pc = "returned"
    /\ active > 0
    /\ log' = Append(log, "success")
    /\ pc' = "logged"
    /\ UNCHANGED << now, runs, fetchVars, all_tickers, exc, loaderVars, storeVars,
                    emptyRuns, concVars, sched, minute, next_run, runnable, active >>

\* run_stock_job raised: the wrapper logs the failure (lines 28-29); an
\* exception it let through would end the main loop (lines 47-48)
SafeJobExcept ==
    /\ pc = "aborted"
    /\ active > 0
    /\ IF Caught(exc)
       THEN /\ log' = Append(log, "failed")
            /\ pc' = "logged"
            /\ UNCHANGED << sched, active >>
       ELSE /\ log' = Append(log, "critical")
            /\ pc' = "sched"
            /\ active' = active - 1
            /\ sched' = "crashed"
    /\ UNCHANGED << now, runs, fetchVars, all_tickers, exc, loaderVars, storeVars,
                    emptyRuns, concVars, minute, next_run, runnable >>

\* the wrapper has returned: its locals are gone, schedule sets the job's
\* next run and run_pending goes on
JobRescheduled ==
    /\ pc = "logged"
    /\ active > 0
    /\ active' = active - 1
    /\ pc' = "sched"
    /\ next_run' = [next_run EXCEPT !["safe_run_stock_job"] = EveryMinute(minute)]
    /\ sched' = IF sched = "in_job" THEN "run_pending" ELSE sched
    /\ apiKey' = None
    /\ chain' = << [status |-> "OK"] >>
    /\ next_url' = NoUrl
    /\ tickers' = <<>>
    /\ events' = <<>>
    /\ responses' = <<>>
    /\ all_tickers' = <<>>
    /\ exc' = None
    /\ UNCHANGED << now, runs, loaderVars, storeVars, emptyRuns, concVars, minute,
                    runnable, log >>

\* run_pending has run every due job; time.sleep(1) (line 44)
RunPendingDone ==
    /\ sched = "run_pending"
    /\ runnable = <<>>
    /\ sched' = "sleep"
    /\ UNCHANGED << scriptVars, concVars, minute, next_run, runnable, log, active >>

\* the sleep is over; the loop goes round (line 42)
WakeUp ==
    /\ sched = "sleep"
    /\ sched' = "loop"
    /\ UNCHANGED << scriptVars, concVars, minute, next_run, runnable, log, active >>

\* a minute of wall-clock time passes, wherever the process is
MinutePasses ==
    /\ sched \in SchedLive
    /\ minute < MaxMinute
    /\ minute' = minute + 1
    /\ UNCHANGED << scriptVars, concVars, sched, next_run, runnable, log, active >>

\* Ctrl+C: KeyboardInterrupt is no Exception, it ends the loop (lines 45-46)
Interrupt ==
    /\ sched \in SchedLive
    /\ sched' = "stopped"
    /\ log' = Append(log, "stopped_by_user")
    /\ active' = 0
    /\ pc' = "sched"
    /\ UNCHANGED << now, runs, fetchVars, all_tickers, exc, loaderVars, storeVars,
                    emptyRuns, concVars, minute, next_run, runnable >>

SchedNext ==
    \/ RunPending
    \/ BasicJob
    \/ SafeJobStart
    \/ StartRun
    \/ FetchPage
    \/ SafeJobSuccess
    \/ SafeJobExcept
    \/ JobRescheduled
    \/ RunPendingDone
    \/ WakeUp
    \/ MinutePasses
    \/ Interrupt

SchedSpec == SchedInit /\ [][SchedNext]_vars

\* ------------------------------------------- properties of the scheduler

\* the stock job's log records, in order
JobLog == SelectSeq(log, LAMBDA r : r \in { "starting", "success", "failed" })

\* C11: an exception of the stock job is caught by the wrapper: the main
\* loop never crashes, the process ends only on the user's interrupt, and
\* after a failed run the loop is still going round.
C11_FailedRunNeverStopsScheduler ==
    /\ sched # "crashed"
    /\ \A i \in 1..Len(log) : log[i] # "critical"
    /\ sched = "stopped" => Last(log) = "stopped_by_user"
    /\ (log # <<>> /\ Last(log) = "failed") => sched \in SchedLive
    /\ (pc = "aborted" /\ active > 0) => sched \in SchedLive

C11_Witness ==
    /\ sched \in SchedLive
    /\ Len(JobLog) >= 3
    /\ JobLog[2] = "failed"
    /\ JobLog[3] = "starting"

\* C12: a scheduled run that finished its fetch went on to the Loader's
\* partition check.
C12_ScheduledRunReachesLoader ==
    (JobLog # <<>> /\ Last(JobLog) = "success") => NumOps("select_count") > 0

\* C13: a scheduled invocation is logged as a success only if its run ended
\* in SKIP or COMMITTED, and never after a non-success HTTP status.
C13_SuccessOnlyAfterSkipOrCommit ==
    (JobLog # <<>> /\ Last(JobLog) = "success") =>
        /\ AllOk
        /\ load.cur.outcome \in { "skipped", "committed" }

\* C16: at most one run of the stock job is in progress, however many
\* minutes pass while it runs.
C16_RunsNeverOverlap ==
    /\ active <= 1
    /\ active = 1 => sched = "in_job"

C16_Witness ==
    /\ active = 1
    /\ pc = "loop"
    /\ minute > next_run["safe_run_stock_job"]
    /\ minute > next_run["basic_job"]

\* ------------------------------------------------ overlapping Loader calls
\* Two calls of load_tickers_to_snowflake, each on a connection of its own,
\* against the same table.  A connection's query sees the committed rows and
\* the rows of its own open transaction.

HasCommitted(q) == lpc[q] \in { "finally_committed", "returned_committed" }

ConcInit ==
    /\ now = 0
    /\ runs = 0
    /\ pc = "calls"
    /\ apiKey = None
    /\ chain = << [status |-> "OK"] >>
    /\ next_url = NoUrl
    /\ tickers = <<>>
    /\ events = <<>>
    /\ responses = <<>>
    /\ all_tickers = <<>>
    /\ exc = None
    /\ conn = "none"
    /\ cursor = "none"
    /\ today = 0
    /\ count = 0
    /\ table = <<>>
    /\ pending = <<>>
    /\ dbops = <<>>
    /\ load = [cur |-> NoLoad, prev |-> NoLoad]
    /\ loaded = [d \in 0..MaxDay |-> <<>>]
    /\ emptyRuns = {}
    /\ SchedIdle
    /\ lpc = [p \in Calls |-> "begin"]
    /\ lbatch \in [Calls -> Batches]
    /\ ltoday = [p \in Calls |-> 0]
    /\ lcount = [p \in Calls |-> 0]
    /\ lpending = [p \in Calls |-> <<>>]
    /\ lseen = [p \in Calls |-> {}]

concFrame == << now, runs, pc, fetchVars, all_tickers, exc, loaderVars, pending,
               load, loaded, emptyRuns, schedVars >>

\* cursor = conn.cursor(); today = ... (lines 106-107)
CallBegin(p) ==
    /\ lpc[p] = "begin"
    /\ ltoday' = [ltoday EXCEPT ![p] = now]
    /\ lpc' = [lpc EXCEPT ![p] = "check"]
    /\ UNCHANGED << concFrame, table, lbatch, lcount, lpending, lseen >>

\* the pre-check (lines 111-117)
CallPreCheck(p) ==
    /\ lpc[p] = "check"
    /\ \/ LET n == CountRows(table, lpending[p], ltoday[p])
          IN  /\ lcount' = [lcount EXCEPT ![p] = n]
              /\ lseen' = [lseen EXCEPT ![p] = { q \in Calls \ {p} : HasCommitted(q) }]
              /\ lpc' = [lpc EXCEPT ![p] =
                            IF AlreadyLoaded(n) THEN "finally_skipped" ELSE "insert"]
       \/ /\ lpc' = [lpc EXCEPT ![p] = "except"]
          /\ UNCHANGED << lcount, lseen >>
    /\ UNCHANGED << concFrame, table, lbatch, ltoday, lpending >>

\* cursor.executemany (lines 120-148)
CallInsert(p) ==
    /\ lpc[p] = "insert"
    /\ LET rows == RowsToInsert(lbatch[p], ltoday[p])
       IN  \/ /\ lpending' = [lpending EXCEPT ![p] = @ \o rows]
              /\ lpc' = [lpc EXCEPT ![p] = "commit"]
           \/ \E k \in 0..(Len(rows) - 1) :
              /\ lpending' = [lpending EXCEPT ![p] = @ \o SubSeq(rows, 1, k)]
              /\ lpc' = [lpc EXCEPT ![p] = "except"]
    /\ UNCHANGED << concFrame, table, lbatch, ltoday, lcount, lseen >>

\* conn.commit() (line 149)
CallCommit(p) ==
    /\ lpc[p] = "commit"
    /\ \/ LET c == Commit(table, lpending[p])
          IN  /\ table' = c.table
              /\ lpending' = [lpending EXCEPT ![p] = c.pending]
              /\ lpc' = [lpc EXCEPT ![p] = "finally_committed"]
       \/ /\ lpc' = [lpc EXCEPT ![p] = "except"]
          /\ UNCHANGED << table, lpending >>
    /\ UNCHANGED << concFrame, lbatch, ltoday, lcount, lseen >>

\* except: conn.rollback(); raise e (lines 152-154)
CallRollback(p) ==
    /\ lpc[p] = "except"
    /\ LET r == Rollback(table, lpending[p])
       IN  /\ table' = r.table
           /\ lpending' = [lpending EXCEPT ![p] = r.pending]
    /\ lpc' = [lpc EXCEPT ![p] = "finally_raised"]
    /\ UNCHANGED << concFrame, lbatch, ltoday, lcount, lseen >>

\* finally: cursor.close() (lines 155-156)
CallReturn(p) ==
    /\ lpc[p] \in { "finally_skipped", "finally_committed", "finally_raised" }
    /\ lpc' = [lpc EXCEPT ![p] =
                  CASE lpc[p] = "finally_skipped" -> "returned_skipped"
                    [] lpc[p] = "finally_committed" -> "returned_committed"
                    [] OTHER -> "raised"]
    /\ UNCHANGED << concFrame, table, lbatch, ltoday, lcount, lpending, lseen >>

ConcNext ==
    \/ \E p \in Calls : CallBegin(p)
    \/ \E p \in Calls : CallPreCheck(p)
    \/ \E p \in Calls : CallInsert(p)
    \/ \E p \in Calls : CallCommit(p)
    \/ \E p \in Calls : CallRollback(p)
    \/ \E p \in Calls : CallReturn(p)
    \/ Tick

ConcSpec == ConcInit /\ [][ConcNext]_vars

\* the rows of call p are in the table
InsertedRows(p) == HasCommitted(p) /\ lbatch[p] # <<>>

\* C17 as stated: of two overlapping calls for the same partition key at
\* most one inserts rows; the partition never holds rows of both.
C17_AtMostOneCallInserts ==
    \A p, q \in Calls :
        (p # q /\ ltoday[p] = ltoday[q]) => ~(InsertedRows(p) /\ InsertedRows(q))

\* C17 as amended: a call whose pre-check runs after another call has
\* committed rows for the same partition key inserts nothing.
C17_CheckAfterCommitSkips ==
    \A p, q \in Calls :
        (q \in lseen[p] /\ ltoday[p] = ltoday[q] /\ lbatch[q] # <<>>) =>
            /\ lpc[p] \in { "finally_skipped", "returned_skipped" }
            /\ lpending[p] = <<>>
            /\ lcount[p] = Len(lbatch[q])

C17_Witness ==
    \E p, q \in Calls :
        /\ p # q
        /\ q \in lseen[p]
        /\ lpc[q] = "finally_committed"
        /\ lpc[p] = "finally_skipped"
        /\ lbatch[p] # <<>>
        /\ lbatch[q] # <<>>
        /\ ltoday[p] = ltoday[q]

====
